---- MODULE Spec2Model ----
(***************************************************************************)
(* Balance bookkeeping of the expense-management server: the account and   *)
(* transaction collections and the controllers that create, update and     *)
(* delete transactions while maintaining each account's current_balance.   *)
(***************************************************************************)
EXTENDS Integers, FiniteSets, Sequences, TLC

(***************************************************************************)
(* Bounds of the model.                                                    *)
(***************************************************************************)
\* Number of transaction documents ever created (uuid values are never reused).
MaxTransactions == 2
\* Significand width of the Number type, scaled down from the 53 bits of a
\* JavaScript Number so that rounding happens inside the explored range.
Precision == 3

Users == {"u1", "u2"}
AccountIds == {"a1", "a2"}
\* The account_id the next account opened by a user receives (each user opens
\* at most one account).
NewAccountId(u) == IF u = "u1" THEN "a1" ELSE "a2"
TRANSACTION_TYPES == {"credit", "debit"}

RECURSIVE Pow2(_)
Pow2(k) == IF k = 0 THEN 1 ELSE 2 * Pow2(k - 1)

(***************************************************************************)
(* The Number type.  Values are counted in units of the smallest quantum   *)
(* the model distinguishes; a Number holds Precision significant bits, and *)
(* every arithmetic result is rounded to the nearest representable value,  *)
(* ties to the even significand, as IEEE 754 addition and subtraction do.  *)
(***************************************************************************)
RECURSIVE UlpFrom(_, _)
UlpFrom(n, q) == IF n < q * Pow2(Precision) THEN q ELSE UlpFrom(n, 2 * q)

Fl(n) ==
  LET q  == UlpFrom(n, 1)
      lo == (n \div q) * q
      r  == n - lo
  IN  IF 2 * r < q THEN lo
      ELSE IF 2 * r > q THEN lo + q
      ELSE IF (lo \div q) % 2 = 0 THEN lo ELSE lo + q

NumAdd(a, b) == Fl(a + b)
NumSub(a, b) == Fl(a - b)

\* Amounts a request can carry after parseFloat: representable and > 0.  With
\* these, every balance the bounds allow is below 2^Precision, so no sum or
\* difference is rounded.
Amounts == {1, 2}
\* Amounts that reach the precision of the Number type: adding 1 to a balance
\* of 2^Precision is rounded.
LargeAmounts == {1, Pow2(Precision)}
\* Opening balances a create-account request can carry (current_balance || 0).
InitialBalances == {0, 1}
\* The requests of the second user are drawn from a smaller set: the user is
\* there as the other tenant, whose documents the first must not touch.
AmountsOf(u, amounts) == IF u = "u1" THEN amounts ELSE {1}
InitialBalancesOf(u) == IF u = "u1" THEN InitialBalances ELSE {0}

\* The number of transaction requests explored when requests interleave.
MaxRequests == 3

\* The requests that can be in flight together, and the user who sends them.
Slots == {"r1", "r2"}
ConcurrentUser == "u1"

VARIABLES
  accounts,      \* Account collection: account_id -> document
  transactions,  \* Transaction collection: transaction_id -> document
  nextId,        \* the next fresh transaction_id
  resp,          \* the request last answered and its response
  inflight,      \* the requests being handled: slot -> request
  received,      \* the number of requests received where that number is bounded
  rateLimitStore,\* the rate limiters' Map: routeKey -> {count, resetTime}
  now,           \* Date.now()
  admitted       \* routeKey -> the requests authLimiter let through since the
                 \* key's record was last created

vars == <<accounts, transactions, nextId, resp, inflight, received,
          rateLimitStore, now, admitted>>

\* The response: the handler that answered, the HTTP status, the error message
\* of an error response, the transaction_id a success response carries, and
\* data.newBalance of deleteTransaction's response ({} when it is null or the
\* response has no such field).
NoResp ==
  [op |-> "none", code |-> 0, error |-> "none", transaction_id |-> 0,
   new_balance |-> {}]

Response(op, u, a, t, amt, ty, code, err) ==
  [op |-> op, code |-> code, error |-> err,
   transaction_id |-> IF code \in {200, 201} THEN t ELSE 0,
   new_balance |-> {}]

(***************************************************************************)
(* Account service.                                                        *)
(***************************************************************************)
\* Faulty variant of findAccountById: the filter has no user_id.
findAccountByIdAnyOwner(accs, accountId, userId) ==
  /\ accountId \in DOMAIN accs
  /\ accs[accountId].is_active

\* Faulty variant of findAccountById: the filter has no is_active.
findAccountByIdIgnoringActive(accs, accountId, userId) ==
  /\ accountId \in DOMAIN accs
  /\ accs[accountId].user_id = userId

\* Account.findOne({account_id, user_id, is_active: true}) finds a document.
findAccountById(accs, accountId, userId) ==
  /\ accountId \in DOMAIN accs
  /\ accs[accountId].user_id = userId
  /\ accs[accountId].is_active

\* Account.findOne({account_id, user_id}): no is_active condition.
findAccountAnyState(accs, accountId, userId) ==
  /\ accountId \in DOMAIN accs
  /\ accs[accountId].user_id = userId

\* Faulty variants of calculateNewBalance: the insufficiency test also rejects
\* a debit equal to the balance; a debit is added; the insufficiency test is
\* missing.
calculateNewBalanceStrict(currentBalance, amount, type) ==
  IF type = "credit"
    THEN [ok |-> TRUE, value |-> NumAdd(currentBalance, amount)]
    ELSE IF currentBalance <= amount
      THEN [ok |-> FALSE, value |-> currentBalance]
      ELSE [ok |-> TRUE, value |-> NumSub(currentBalance, amount)]

calculateNewBalanceDebitAdds(currentBalance, amount, type) ==
  IF type = "credit"
    THEN [ok |-> TRUE, value |-> NumAdd(currentBalance, amount)]
    ELSE IF currentBalance < amount
      THEN [ok |-> FALSE, value |-> currentBalance]
      ELSE [ok |-> TRUE, value |-> NumAdd(currentBalance, amount)]

calculateNewBalanceUnchecked(currentBalance, amount, type) ==
  IF type = "credit"
    THEN [ok |-> TRUE, value |-> NumAdd(currentBalance, amount)]
    ELSE [ok |-> TRUE, value |-> NumSub(currentBalance, amount)]

calculateNewBalance(currentBalance, amount, type) ==
  IF type = "credit"
    THEN [ok |-> TRUE, value |-> NumAdd(currentBalance, amount)]
    ELSE IF currentBalance < amount
      THEN [ok |-> FALSE, value |-> currentBalance]
      ELSE [ok |-> TRUE, value |-> NumSub(currentBalance, amount)]

\* Faulty variant of updateAccountBalance: the save is lost.
updateAccountBalanceLost(accs, accountId, loaded, newBalance) == accs

\* Faulty variant of updateAccountBalance: the update is not filtered by account.
updateAccountBalanceEveryAccount(accs, accountId, loaded, newBalance) ==
  [x \in DOMAIN accs |-> [accs[x] EXCEPT !.current_balance = newBalance]]

\* account.current_balance = newBalance; account.save().  The document was
\* loaded with current_balance = loaded; save() writes the paths that changed
\* on the document, so it writes current_balance only when newBalance differs
\* from the loaded value, and it leaves the other fields of the stored document.
updateAccountBalance(accs, accountId, loaded, newBalance) ==
  IF newBalance = loaded
    THEN accs
    ELSE [accs EXCEPT ![accountId].current_balance = newBalance]

\* Faulty variant of reverseType: the type is not flipped.
reverseTypeSame(type) == type

reverseType(type) == IF type = "credit" THEN "debit" ELSE "credit"

\* Faulty variant of Without: the document stays.
WithoutNothing(f, k) == f

\* Transaction.deleteOne({transaction_id: k})
Without(f, k) == [x \in DOMAIN f \ {k} |-> f[x]]

(***************************************************************************)
(* A request being handled: its parameters, the position of its handler    *)
(* (pc, one position per awaited database call) and what the handler holds *)
(* in its local variables.                                                 *)
(***************************************************************************)
Idle ==
  [op |-> "idle", pc |-> "idle", user_id |-> "none", account_id |-> "none",
   transaction_id |-> 0, amount |-> 0, type |-> "none", category |-> "none",
   entry_amount |-> 0, entry_type |-> "none",
   found |-> FALSE, loaded |-> 0, opening |-> 0, value |-> 0]

\* The transaction_category of a request that is not drawn separately: one of
\* the categories listed under the request's transaction_type.
CategoryOf(type) ==
  IF type = "credit" THEN "Salary" ELSE IF type = "debit" THEN "Food" ELSE "none"

NewRequest(op, userId, accountId, id, amount, type) ==
  [Idle EXCEPT !.op = op, !.pc = "start", !.user_id = userId,
               !.account_id = accountId, !.transaction_id = id,
               !.amount = amount, !.type = type, !.category = CategoryOf(type)]

\* What one step of a handler leaves: the stores, the request, and the response
\* once the handler has answered (req.pc = "done").
Out(accs, txns, nid, q, r) ==
  [accounts |-> accs, transactions |-> txns, nextId |-> nid, req |-> q, resp |-> r]

Continue(accs, txns, nid, q) == Out(accs, txns, nid, q, NoResp)

Answer(accs, txns, nid, q, code, err) ==
  Out(accs, txns, nid, [q EXCEPT !.pc = "done"],
      Response(q.op, q.user_id, q.account_id, q.transaction_id, q.amount, q.type, code, err))

(***************************************************************************)
(* createTransaction                                                       *)
(***************************************************************************)
\* Faulty variant of createTransactionStep: the balance is saved first and the
\* entry is created second.
createTransactionStepBalanceFirst(accs, txns, nid, q) ==
  CASE q.pc = "start" ->
         IF ~ findAccountById(accs, q.account_id, q.user_id)
           THEN Answer(accs, txns, nid, q, 404, "Account not found")
           ELSE
             LET openingBalance == accs[q.account_id].current_balance
                 closingBalance == calculateNewBalance(openingBalance, q.amount, q.type)
             IN  IF ~ closingBalance.ok
                   THEN Answer(accs, txns, nid, q, 400, "Insufficient balance")
                   ELSE Continue(accs, txns, nid,
                                 [q EXCEPT !.pc = "create",
                                           !.loaded = openingBalance,
                                           !.opening = openingBalance,
                                           !.value = closingBalance.value])
    [] q.pc = "create" ->
         Continue(updateAccountBalance(accs, q.account_id, q.loaded, q.value),
                  txns, nid, [q EXCEPT !.pc = "save"])
    [] q.pc = "save" ->
         Answer(accs,
                nid :> [user_id |-> q.user_id, account_id |-> q.account_id,
                        transaction_amount |-> q.amount,
                        transaction_type |-> q.type,
                        transaction_category |-> q.category,
                        opening_balance |-> q.opening,
                        closing_balance |-> q.value,
                        transaction_date |-> nid] @@ txns,
                nid + 1, [q EXCEPT !.transaction_id = nid], 201, "none")

createTransactionStep(accs, txns, nid, q) ==
  CASE q.pc = "start" ->
         \* findAccountById, then calculateNewBalance on the loaded balance
         IF ~ findAccountById(accs, q.account_id, q.user_id)
           THEN Answer(accs, txns, nid, q, 404, "Account not found")
           ELSE
             LET openingBalance == accs[q.account_id].current_balance
                 closingBalance == calculateNewBalance(openingBalance, q.amount, q.type)
             IN  IF ~ closingBalance.ok
                   THEN Answer(accs, txns, nid, q, 400, "Insufficient balance")
                   ELSE Continue(accs, txns, nid,
                                 [q EXCEPT !.pc = "create",
                                           !.loaded = openingBalance,
                                           !.opening = openingBalance,
                                           !.value = closingBalance.value])
    [] q.pc = "create" ->
         \* Transaction.create; transaction_date defaults to new Date()
         Continue(accs,
                  nid :> [user_id |-> q.user_id, account_id |-> q.account_id,
                          transaction_amount |-> q.amount,
                          transaction_type |-> q.type,
                          transaction_category |-> q.category,
                          opening_balance |-> q.opening,
                          closing_balance |-> q.value,
                          transaction_date |-> nid] @@ txns,
                  nid + 1,
                  [q EXCEPT !.pc = "save", !.transaction_id = nid])
    [] q.pc = "save" ->
         Answer(updateAccountBalance(accs, q.account_id, q.loaded, q.value),
                txns, nid, q, 201, "none")

(***************************************************************************)
(* updateTransaction                                                       *)
(***************************************************************************)
updateTransactionStep(accs, txns, nid, q) ==
  CASE q.pc = "start" ->
         \* Transaction.findOne({transaction_id, user_id})
         IF ~ (q.transaction_id \in DOMAIN txns
                 /\ txns[q.transaction_id].user_id = q.user_id)
           THEN Answer(accs, txns, nid, q, 404, "Transaction not found")
           ELSE
             LET transaction == txns[q.transaction_id]
             IN  Continue(accs, txns, nid,
                          [q EXCEPT !.pc = "account",
                                    !.account_id = transaction.account_id,
                                    !.entry_amount = transaction.transaction_amount,
                                    !.entry_type = transaction.transaction_type])
    [] q.pc = "account" ->
         \* Account.findOne({account_id, user_id}), then the two calculations
         IF ~ findAccountAnyState(accs, q.account_id, q.user_id)
           THEN Answer(accs, txns, nid, q, 404, "Account not found")
           ELSE
             LET balanceAfterRevert ==
                   calculateNewBalance(accs[q.account_id].current_balance,
                                       q.entry_amount, reverseType(q.entry_type))
             IN
             IF ~ balanceAfterRevert.ok
               THEN Answer(accs, txns, nid, q, 400, "Insufficient balance")
               ELSE
                 LET finalBalance ==
                       calculateNewBalance(balanceAfterRevert.value, q.amount, q.type)
                 IN
                 IF ~ finalBalance.ok
                   THEN Answer(accs, txns, nid, q, 400, "Insufficient balance")
                   ELSE Continue(accs, txns, nid,
                                 [q EXCEPT !.pc = "write",
                                           !.loaded = accs[q.account_id].current_balance,
                                           !.opening = balanceAfterRevert.value,
                                           !.value = finalBalance.value])
    [] q.pc = "write" ->
         \* Transaction.findOneAndUpdate({transaction_id}, ...): no document, no write
         Continue(accs,
                  IF q.transaction_id \in DOMAIN txns
                    THEN [txns EXCEPT ![q.transaction_id] =
                            [@ EXCEPT !.transaction_amount = q.amount,
                                      !.transaction_type = q.type,
                                      !.transaction_category = q.category,
                                      !.opening_balance = q.opening,
                                      !.closing_balance = q.value]]
                    ELSE txns,
                  nid, [q EXCEPT !.pc = "save"])
    [] q.pc = "save" ->
         Answer(updateAccountBalance(accs, q.account_id, q.loaded, q.value),
                txns, nid, q, 200, "none")

(***************************************************************************)
(* deleteTransaction                                                       *)
(***************************************************************************)
deleteTransactionStep(accs, txns, nid, q) ==
  CASE q.pc = "start" ->
         \* Transaction.findOne({transaction_id, user_id})
         IF ~ (q.transaction_id \in DOMAIN txns
                 /\ txns[q.transaction_id].user_id = q.user_id)
           THEN Answer(accs, txns, nid, q, 404, "Transaction not found")
           ELSE
             LET transactionToDelete == txns[q.transaction_id]
             IN  Continue(accs, txns, nid,
                          [q EXCEPT !.pc = "account",
                                    !.account_id = transactionToDelete.account_id,
                                    !.entry_amount = transactionToDelete.transaction_amount,
                                    !.entry_type = transactionToDelete.transaction_type])
    [] q.pc = "account" ->
         \* Account.findOne({account_id, user_id, is_active: true})
         IF findAccountById(accs, q.account_id, q.user_id)
           THEN
             LET newBalance ==
                   calculateNewBalance(accs[q.account_id].current_balance,
                                       q.entry_amount, reverseType(q.entry_type))
             IN  IF ~ newBalance.ok
                   THEN Answer(accs, txns, nid, q, 400, "Insufficient balance")
                   ELSE Continue(accs, txns, nid,
                                 [q EXCEPT !.pc = "save",
                                           !.found = TRUE,
                                           !.loaded = accs[q.account_id].current_balance,
                                           !.value = newBalance.value])
           ELSE Continue(accs, txns, nid, [q EXCEPT !.pc = "delete"])
    [] q.pc = "save" ->
         Continue(updateAccountBalance(accs, q.account_id, q.loaded, q.value),
                  txns, nid, [q EXCEPT !.pc = "delete"])
    [] q.pc = "delete" ->
         \* newBalance: account ? account.current_balance : null
         LET s == Answer(accs, Without(txns, q.transaction_id), nid, q, 200, "none")
         IN  [s EXCEPT !.resp.new_balance = IF q.found THEN {q.value} ELSE {}]

Step(accs, txns, nid, q) ==
  CASE q.op = "createTransaction" -> createTransactionStep(accs, txns, nid, q)
    [] q.op = "updateTransaction" -> updateTransactionStep(accs, txns, nid, q)
    [] q.op = "deleteTransaction" -> deleteTransactionStep(accs, txns, nid, q)

\* A handler run from its first step to its answer with no other request in
\* between.
RECURSIVE RunToEnd(_, _, _, _)
RunToEnd(accs, txns, nid, q) ==
  LET s == Step(accs, txns, nid, q)
  IN  IF s.req.pc = "done" THEN s ELSE RunToEnd(s.accounts, s.transactions, s.nextId, s.req)

createTransactionH(accs, txns, nid, userId, accountId, amount, type) ==
  RunToEnd(accs, txns, nid,
           NewRequest("createTransaction", userId, accountId, 0, amount, type))

updateTransactionH(accs, txns, nid, userId, id, amount, type) ==
  RunToEnd(accs, txns, nid,
           NewRequest("updateTransaction", userId, "none", id, amount, type))

deleteTransactionH(accs, txns, nid, userId, id) ==
  RunToEnd(accs, txns, nid,
           NewRequest("deleteTransaction", userId, "none", id, 0, "none"))

(***************************************************************************)
(* Account controllers: one database call each.                            *)
(***************************************************************************)
\* Values of the fields a create-account request carries besides the balance:
\* a supported bank, the schema's default account_type, no account_number.
SUPPORTED_BANKS == {"HDFC", "SBI", "BOB", "Axis", "ICICI", "Kotak", "PNB", "Other"}
ACCOUNT_TYPES == {"Savings", "Current", "Salary", "Fixed Deposit"}
NoNumber == "null"

createAccountH(accs, txns, nid, userId, accountId, currentBalance) ==
  Out(accountId :> [user_id |-> userId, current_balance |-> currentBalance,
                    is_active |-> TRUE, created_balance |-> currentBalance,
                    bank_name |-> "HDFC", account_type |-> "Savings",
                    account_number |-> NoNumber] @@ accs,
      txns, nid, Idle,
      Response("createAccount", userId, accountId, 0, currentBalance, "none", 201, "none"))

\* The fields of a body that updateAccount reads: undefined or a string.
NotSent == "undefined"

\* Faulty variant of updateAccountH: the filter has no is_active, and the
\* update makes the account active.
updateAccountHReviving(accs, txns, nid, userId, accountId, bankName, accountType, accountNumber) ==
  IF findAccountAnyState(accs, accountId, userId)
    THEN Out([accs EXCEPT ![accountId].is_active = TRUE], txns, nid, Idle,
             Response("updateAccount", userId, accountId, 0, 0, "none", 200, "none"))
    ELSE Out(accs, txns, nid, Idle,
             Response("updateAccount", userId, accountId, 0, 0, "none", 404,
                      "Account not found or unauthorized"))

\* updateAccount: Account.findOneAndUpdate({account_id, user_id, is_active: true},
\* updateData) with the fields of the body that passed the checks.
updateAccountH(accs, txns, nid, userId, accountId, bankName, accountType, accountNumber) ==
  LET sent(x) == x # NotSent /\ x # ""
      answer(code, err) ==
        Response("updateAccount", userId, accountId, 0, 0, "none", code, err)
  IN  IF sent(bankName) /\ bankName \notin SUPPORTED_BANKS
        THEN Out(accs, txns, nid, Idle, answer(400, "Invalid bank name"))
      ELSE IF sent(accountType) /\ accountType \notin ACCOUNT_TYPES
        THEN Out(accs, txns, nid, Idle, answer(400, "Invalid account type"))
      ELSE IF ~ sent(bankName) /\ ~ sent(accountType) /\ accountNumber = NotSent
        THEN Out(accs, txns, nid, Idle, answer(400, "No valid fields to update"))
      ELSE IF ~ findAccountById(accs, accountId, userId)
        THEN Out(accs, txns, nid, Idle,
                 answer(404, "Account not found or unauthorized"))
      ELSE
        Out([accs EXCEPT
               ![accountId].bank_name =
                 IF sent(bankName) THEN bankName ELSE @,
               ![accountId].account_type =
                 IF sent(accountType) THEN accountType ELSE @,
               ![accountId].account_number =
                 IF accountNumber # NotSent THEN accountNumber ELSE @],
            txns, nid, Idle, answer(200, "none"))

\* Faulty variant of deleteAccountH: the entries of the account are deleted
\* with it.
deleteAccountHCascading(accs, txns, nid, userId, accountId) ==
  IF findAccountById(accs, accountId, userId)
    THEN Out([accs EXCEPT ![accountId].is_active = FALSE],
             [t \in {x \in DOMAIN txns : txns[x].account_id # accountId} |-> txns[t]],
             nid, Idle,
             Response("deleteAccount", userId, accountId, 0, 0, "none", 200, "none"))
    ELSE Out(accs, txns, nid, Idle,
             Response("deleteAccount", userId, accountId, 0, 0, "none", 404,
                      "Account not found or already deleted"))

deleteAccountH(accs, txns, nid, userId, accountId) ==
  IF findAccountById(accs, accountId, userId)
    THEN Out([accs EXCEPT ![accountId].is_active = FALSE], txns, nid, Idle,
             Response("deleteAccount", userId, accountId, 0, 0, "none", 200, "none"))
    ELSE Out(accs, txns, nid, Idle,
             Response("deleteAccount", userId, accountId, 0, 0, "none", 404,
                      "Account not found or already deleted"))

(***************************************************************************)
(* The server answering one request at a time.                             *)
(***************************************************************************)
Init ==
  /\ accounts = <<>>
  /\ transactions = <<>>
  /\ nextId = 1
  /\ resp = NoResp
  /\ inflight = [r \in Slots |-> Idle]
  /\ received = 0
  /\ rateLimitStore = <<>>
  /\ now = 0
  /\ admitted = <<>>

Commit(r) ==
  /\ accounts' = r.accounts
  /\ transactions' = r.transactions
  /\ nextId' = r.nextId
  /\ resp' = r.resp
  /\ UNCHANGED <<inflight, received, rateLimitStore, now, admitted>>

createAccount ==
  \E u \in Users : \E b \in InitialBalancesOf(u) :
    /\ NewAccountId(u) \notin DOMAIN accounts
    /\ Commit(createAccountH(accounts, transactions, nextId, u, NewAccountId(u), b))

deleteAccount ==
  \E u \in Users, a \in AccountIds :
    Commit(deleteAccountH(accounts, transactions, nextId, u, a))

createTransactionOf(amounts) ==
  /\ nextId <= MaxTransactions
  /\ \E u \in Users, a \in AccountIds, ty \in TRANSACTION_TYPES : \E amt \in AmountsOf(u, amounts) :
       Commit(createTransactionH(accounts, transactions, nextId, u, a, amt, ty))

updateTransactionOf(amounts) ==
  \E u \in Users, id \in 1..MaxTransactions, ty \in TRANSACTION_TYPES : \E amt \in AmountsOf(u, amounts) :
    Commit(updateTransactionH(accounts, transactions, nextId, u, id, amt, ty))

deleteTransaction ==
  \E u \in Users, id \in 1..MaxTransactions :
    Commit(deleteTransactionH(accounts, transactions, nextId, u, id))

createTransaction == createTransactionOf(Amounts)
updateTransaction == updateTransactionOf(Amounts)

Next ==
  \/ createAccount
  \/ deleteAccount
  \/ createTransaction
  \/ updateTransaction
  \/ deleteTransaction

Spec == Init /\ [][Next]_vars

(***************************************************************************)
(* The same server with requests whose amounts reach the precision of the  *)
(* Number type.                                                            *)
(***************************************************************************)
createLargeTransaction == createTransactionOf(LargeAmounts)
updateLargeTransaction == updateTransactionOf(LargeAmounts)

NextNumber ==
  \/ createAccount
  \/ deleteAccount
  \/ createLargeTransaction
  \/ updateLargeTransaction
  \/ deleteTransaction

SpecNumber == Init /\ [][NextNumber]_vars

(***************************************************************************)
(* The server with requests in flight together: a handler is suspended at  *)
(* each awaited database call, and the steps of the handlers in flight     *)
(* interleave in any order.                                                *)
(***************************************************************************)
\* Slots fill in order: r2 is used only while r1 holds a request.
CanStart(r) ==
  /\ received < MaxRequests
  /\ received' = received + 1
  /\ inflight[r] = Idle
  /\ r = "r2" => inflight["r1"] # Idle

\* A handler runs from where it is to its next awaited call or to its answer.
Advance(r, q) ==
  LET s == Step(accounts, transactions, nextId, q)
  IN  /\ accounts' = s.accounts
      /\ transactions' = s.transactions
      /\ nextId' = s.nextId
      /\ IF s.req.pc = "done"
           THEN resp' = s.resp /\ inflight' = [inflight EXCEPT ![r] = Idle]
           ELSE resp' = resp /\ inflight' = [inflight EXCEPT ![r] = s.req]
      /\ UNCHANGED <<rateLimitStore, now, admitted>>

\* A request arrives and its handler runs up to its first awaited call's result.
beginCreateTransaction ==
  \E r \in Slots, a \in AccountIds, amt \in Amounts, ty \in TRANSACTION_TYPES :
    /\ CanStart(r)
    /\ Advance(r, NewRequest("createTransaction", ConcurrentUser, a, 0, amt, ty))

beginUpdateTransaction ==
  \E r \in Slots, id \in 1..MaxTransactions, amt \in Amounts, ty \in TRANSACTION_TYPES :
    /\ CanStart(r)
    /\ Advance(r, NewRequest("updateTransaction", ConcurrentUser, "none", id, amt, ty))

beginDeleteTransaction ==
  \E r \in Slots, id \in 1..MaxTransactions :
    /\ CanStart(r)
    /\ Advance(r, NewRequest("deleteTransaction", ConcurrentUser, "none", id, 0, "none"))

\* The awaited call of a suspended handler returns.
resume ==
  \E r \in Slots :
    /\ inflight[r] # Idle
    /\ (inflight[r].op = "createTransaction" /\ inflight[r].pc = "create")
         => nextId <= MaxTransactions
    /\ Advance(r, inflight[r])
    /\ UNCHANGED <<received, rateLimitStore, now, admitted>>

openAccount ==
  /\ NewAccountId(ConcurrentUser) \notin DOMAIN accounts
  /\ \E b \in InitialBalances :
       LET s == createAccountH(accounts, transactions, nextId, ConcurrentUser,
                               NewAccountId(ConcurrentUser), b)
       IN  /\ accounts' = s.accounts
           /\ resp' = s.resp
           /\ UNCHANGED <<transactions, nextId, inflight, received, rateLimitStore, now, admitted>>

closeAccount ==
  LET s == deleteAccountH(accounts, transactions, nextId, ConcurrentUser,
                          NewAccountId(ConcurrentUser))
  IN  /\ accounts' = s.accounts
      /\ resp' = s.resp
      /\ UNCHANGED <<transactions, nextId, inflight, received, rateLimitStore, now, admitted>>

NextConcurrent ==
  \/ openAccount
  \/ closeAccount
  \/ beginCreateTransaction
  \/ beginUpdateTransaction
  \/ beginDeleteTransaction
  \/ resume

SpecConcurrent == Init /\ [][NextConcurrent]_vars

(***************************************************************************)
(* The same server when an awaited database call can fail: the promise     *)
(* rejects, asyncHandler passes the error to globalErrorHandler, which     *)
(* answers 500; what the handler wrote before stays written.               *)
(***************************************************************************)
fail ==
  \E r \in Slots :
    /\ inflight[r] # Idle
    /\ inflight' = [inflight EXCEPT ![r] = Idle]
    /\ resp' = Response(inflight[r].op, inflight[r].user_id, inflight[r].account_id,
                        inflight[r].transaction_id, inflight[r].amount,
                        inflight[r].type, 500, "Internal server error")
    /\ UNCHANGED <<accounts, transactions, nextId, received, rateLimitStore, now, admitted>>

NextFailing ==
  \/ openAccount
  \/ closeAccount
  \/ beginCreateTransaction
  \/ beginUpdateTransaction
  \/ beginDeleteTransaction
  \/ resume
  \/ fail

SpecFailing == Init /\ [][NextFailing]_vars

(***************************************************************************)
(* Two handlers a and b whose steps run in a given order: sched names the  *)
(* handler that takes each next step; a name whose handler has answered is *)
(* passed over, and what is left when sched ends runs a first, then b.     *)
(***************************************************************************)
\* The awaited calls of createTransaction.
CreateSteps == {"start", "create", "save"}

\* Every order in which the steps of two createTransaction handlers can run.
Schedules == [1 .. 2 * Cardinality(CreateSteps) -> {"a", "b"}]

TwoRequests(accs, txns, nid, qa, qb) ==
  [accounts |-> accs, transactions |-> txns, nextId |-> nid,
   a |-> qa, b |-> qb, ra |-> NoResp, rb |-> NoResp, nonneg |-> TRUE]

\* nonneg records that no step has stored a negative current_balance.
StepOf(st, who) ==
  LET q == IF who = "a" THEN st.a ELSE st.b
  IN  IF q.pc = "done"
        THEN st
        ELSE
          LET s == Step(st.accounts, st.transactions, st.nextId, q)
          IN  [accounts |-> s.accounts, transactions |-> s.transactions,
               nextId |-> s.nextId,
               a |-> IF who = "a" THEN s.req ELSE st.a,
               b |-> IF who = "b" THEN s.req ELSE st.b,
               ra |-> IF who = "a" /\ s.req.pc = "done" THEN s.resp ELSE st.ra,
               rb |-> IF who = "b" /\ s.req.pc = "done" THEN s.resp ELSE st.rb,
               nonneg |-> st.nonneg
                            /\ \A x \in DOMAIN s.accounts :
                                 s.accounts[x].current_balance >= 0]

RECURSIVE Interleave(_, _)
Interleave(st, sched) ==
  IF sched # <<>> THEN Interleave(StepOf(st, Head(sched)), Tail(sched))
  ELSE IF st.a.pc # "done" THEN Interleave(StepOf(st, "a"), <<>>)
  ELSE IF st.b.pc # "done" THEN Interleave(StepOf(st, "b"), <<>>)
  ELSE st

(***************************************************************************)
(* Request bodies as they arrive.  transaction_amount is undefined, a JSON *)
(* number or a JSON string (a sequence of characters); transaction_type    *)
(* and transaction_category are strings, "" standing for an empty or       *)
(* missing field (both are falsy).                                         *)
(***************************************************************************)
\* Longest string a request carries as its amount.
MaxStrLen == 2

Chars == {"0", "1", "-", "a"}
Strings == UNION {[1 .. n -> Chars] : n \in 0 .. MaxStrLen}
JsonNumbers == {0 - 1, 0, 1, 2}

Undefined == [kind |-> "undefined", str |-> <<>>, num |-> 0]
JsonString(s) == [kind |-> "string", str |-> s, num |-> 0]
JsonNumber(n) == [kind |-> "number", str |-> <<>>, num |-> n]

RawAmounts ==
  {Undefined} \cup {JsonString(s) : s \in Strings} \cup {JsonNumber(n) : n \in JsonNumbers}
RawTypes == {"", "credit", "debit", "Credit"}

TRANSACTION_CATEGORIES ==
  [credit |-> {"Salary", "Freelance", "Investment", "Refund", "Gift", "Other Income"},
   debit  |-> {"Food", "Transport", "Shopping", "Bills", "Entertainment", "Health",
               "Education", "Other Expense"}]
ALL_CATEGORIES == TRANSACTION_CATEGORIES.credit \cup TRANSACTION_CATEGORIES.debit
RawCategories == {"", "Salary", "Food", "Rent"}

\* !x of JavaScript: undefined, "", 0 are falsy.
Falsy(x) ==
  \/ x.kind = "undefined"
  \/ x.kind = "string" /\ x.str = <<>>
  \/ x.kind = "number" /\ x.num = 0

IsDigit(c) == c \in {"0", "1", "2", "3"}
DigitValue(c) == CASE c = "0" -> 0 [] c = "1" -> 1 [] c = "2" -> 2 [] c = "3" -> 3

\* The digits a string starts with, as a number; seen counts them.
RECURSIVE LeadingDigits(_, _, _)
LeadingDigits(s, value, seen) ==
  IF s # <<>> /\ IsDigit(Head(s))
    THEN LeadingDigits(Tail(s), 10 * value + DigitValue(Head(s)), seen + 1)
    ELSE [value |-> value, seen |-> seen]

\* parseFloat: a number is returned as it is; of a string, the longest prefix
\* that is a numeral (an optional sign, then digits) is converted and the rest
\* is ignored; NaN when there is no such prefix.
parseFloat(x) ==
  IF x.kind = "number" THEN [nan |-> FALSE, value |-> x.num]
  ELSE IF x.kind = "undefined" THEN [nan |-> TRUE, value |-> 0]
  ELSE
    LET negative == x.str # <<>> /\ Head(x.str) = "-"
        d == LeadingDigits(IF negative THEN Tail(x.str) ELSE x.str, 0, 0)
    IN  IF d.seen = 0 THEN [nan |-> TRUE, value |-> 0]
        ELSE [nan |-> FALSE, value |-> IF negative THEN 0 - d.value ELSE d.value]

\* The validation both controllers start with: the error message of the first
\* check that fails ("none" when all pass) and the parsed amount.
validateBody(transactionAmount, transactionType, transactionCategory) ==
  LET amount == parseFloat(transactionAmount)
      error ==
        IF Falsy(transactionAmount) THEN "Transaction amount is required"
        ELSE IF transactionType = "" THEN "Transaction type is required"
        ELSE IF transactionCategory = "" THEN "Transaction category is required"
        ELSE IF amount.nan \/ amount.value <= 0
          THEN "Transaction amount must be a positive number"
        ELSE IF transactionType \notin TRANSACTION_TYPES THEN "Invalid transaction type"
        ELSE IF transactionCategory \notin ALL_CATEGORIES THEN "Invalid category"
        ELSE "none"
  IN  [error |-> error, amount |-> amount.value]

\* createTransaction from the request body.
createTransactionReq(accs, txns, nid, userId, accountId, rawAmount, rawType, rawCategory) ==
  LET v == validateBody(rawAmount, rawType, rawCategory)
  IN  IF v.error # "none"
        THEN Out(accs, txns, nid, Idle,
                 Response("createTransaction", userId, accountId, 0, 0, "none", 400, v.error))
        ELSE createTransactionH(accs, txns, nid, userId, accountId, v.amount, rawType)

\* updateTransaction from the request body.
updateTransactionReq(accs, txns, nid, userId, id, rawAmount, rawType, rawCategory) ==
  LET v == validateBody(rawAmount, rawType, rawCategory)
  IN  IF v.error # "none"
        THEN Out(accs, txns, nid, Idle,
                 Response("updateTransaction", userId, "none", id, 0, "none", 400, v.error))
        ELSE updateTransactionH(accs, txns, nid, userId, id, v.amount, rawType)

\* The user whose request bodies are explored, and the bodies: those that
\* fail validation and those whose amount parses to one of Amounts.
RequestUser == "u1"
Explored(rawAmount, rawType, rawCategory) ==
  LET v == validateBody(rawAmount, rawType, rawCategory)
  IN  v.error # "none" \/ v.amount \in Amounts

postTransaction ==
  /\ nextId <= MaxTransactions
  /\ \E a \in AccountIds :
       \E rawAmount \in RawAmounts, rawType \in RawTypes, rawCategory \in RawCategories :
         /\ Explored(rawAmount, rawType, rawCategory)
         /\ Commit(createTransactionReq(accounts, transactions, nextId, RequestUser, a,
                                        rawAmount, rawType, rawCategory))

putTransaction ==
  \E id \in 1 .. MaxTransactions :
    \E rawAmount \in RawAmounts, rawType \in RawTypes, rawCategory \in RawCategories :
      /\ Explored(rawAmount, rawType, rawCategory)
      /\ Commit(updateTransactionReq(accounts, transactions, nextId, RequestUser, id,
                                     rawAmount, rawType, rawCategory))

NextRequest ==
  \/ createAccount
  \/ deleteAccount
  \/ postTransaction
  \/ putTransaction
  \/ deleteTransaction

SpecRequest == Init /\ [][NextRequest]_vars

(***************************************************************************)
(* getTransactionsByAccount: the listing of an account's transactions.     *)
(* A query parameter is undefined or a string.                             *)
(***************************************************************************)
PAGINATION == [defaultLimit |-> 10, maxLimit |-> 50, maxLimitTransactions |-> 100]
SORT_FIELDS ==
  [transaction |->
     {"transaction_date", "transaction_amount", "created_at", "transaction_type"}]

Max(a, b) == IF a >= b THEN a ELSE b
Min(a, b) == IF a <= b THEN a ELSE b

\* parseInt: as parseFloat on the strings of the model, which carry no
\* fraction and no exponent.
parseInt(x) == parseFloat(x)

\* x || d for a parsed number: NaN and 0 are falsy.
OrDefault(n, d) == IF n.nan \/ n.value = 0 THEN d ELSE n.value

\* Faulty variant of parsePagination: the limit is not capped.
parsePaginationUncapped(query, maxLimit) ==
  LET page  == Max(1, OrDefault(parseInt(query.page), 1))
      limit == Max(1, OrDefault(parseInt(query.limit), 10))
  IN  [page |-> page, limit |-> limit, skip |-> (page - 1) * limit]

parsePagination(query, maxLimit) ==
  LET page  == Max(1, OrDefault(parseInt(query.page), 1))
      limit == Min(maxLimit, Max(1, OrDefault(parseInt(query.limit), 10)))
  IN  [page |-> page, limit |-> limit, skip |-> (page - 1) * limit]

buildPaginationResponse(page, limit, totalCount) ==
  LET totalPages == (totalCount + limit - 1) \div limit
  IN  [currentPage |-> page, totalPages |-> totalPages, totalCount |-> totalCount,
       perPage |-> limit, hasNextPage |-> page < totalPages,
       hasPrevPage |-> page > 1]

\* { [sortField]: sortDirection }
buildSortOptions(sortBy, sortOrder, validFields, defaultField) ==
  [field |-> IF sortBy \in validFields THEN sortBy ELSE defaultField,
   direction |-> IF sortOrder = "asc" THEN 1 ELSE 0 - 1]

\* new Date(string): the time value of a string that is a date (here a
\* numeral), Invalid Date (nan) of any other string.
newDate(x) ==
  LET d == LeadingDigits(x.str, 0, 0)
  IN  IF x.str # <<>> /\ d.seen = Len(x.str)
        THEN [nan |-> FALSE, value |-> d.value]
        ELSE [nan |-> TRUE, value |-> 0]

\* A range condition {$gte, $lte} holds the bounds that are set, as parsed.
buildDateRangeFilter(startDate, endDate) ==
  [gte |-> IF Falsy(startDate) THEN {} ELSE {newDate(startDate)},
   lte |-> IF Falsy(endDate) THEN {} ELSE {newDate(endDate)}]

buildAmountRangeFilter(minAmount, maxAmount) ==
  [gte |-> IF Falsy(minAmount) THEN {} ELSE {parseFloat(minAmount)},
   lte |-> IF Falsy(maxAmount) THEN {} ELSE {parseFloat(maxAmount)}]

\* Mongoose casts the values of a query condition to the type of the path and
\* throws CastError for NaN and for Invalid Date.
CastFails(range) == \E b \in range.gte \cup range.lte : b.nan

InRange(v, range) ==
  /\ \A b \in range.gte : v >= b.value
  /\ \A b \in range.lte : v <= b.value

\* The filter object built from the query.
buildFilter(userId, id, query) ==
  [account_id |-> id, user_id |-> userId,
   transaction_date |-> buildDateRangeFilter(query.start_date, query.end_date),
   transaction_type |->
     IF query.transaction_type \in TRANSACTION_TYPES
       THEN {query.transaction_type} ELSE {},
   transaction_category |->
     IF query.transaction_category \in ALL_CATEGORIES
       THEN {query.transaction_category} ELSE {},
   transaction_amount |-> buildAmountRangeFilter(query.min_amount, query.max_amount)]

\* The documents of the collection that match the filter.
Matching(txns, filter) ==
  {t \in DOMAIN txns :
     /\ txns[t].account_id = filter.account_id
     /\ txns[t].user_id = filter.user_id
     /\ InRange(txns[t].transaction_date, filter.transaction_date)
     /\ \A ty \in filter.transaction_type : txns[t].transaction_type = ty
     /\ \A c \in filter.transaction_category : txns[t].transaction_category = c
     /\ InRange(txns[t].transaction_amount, filter.transaction_amount)}

\* The value a document is sorted by; created_at is the order of creation and
\* strings compare as "credit" < "debit".
SortKey(txns, t, field) ==
  CASE field = "transaction_date" -> txns[t].transaction_date
    [] field = "transaction_amount" -> txns[t].transaction_amount
    [] field = "created_at" -> t
    [] field = "transaction_type" ->
         IF txns[t].transaction_type = "credit" THEN 0 ELSE 1

\* The order in which the collection returns documents whose sort keys are
\* equal: the database leaves it open, and it is the same for every query on
\* an unchanged collection.
NaturalOrders == {"insertion", "reverse"}

\* Transaction.find(filter).sort(sortOptions): the matching documents in order.
Sorted(txns, S, sortOptions, natural) ==
  LET key(t) == SortKey(txns, t, sortOptions.field)
      before(x, t) ==
        \/ sortOptions.direction = 1 /\ key(x) < key(t)
        \/ sortOptions.direction # 1 /\ key(x) > key(t)
        \/ key(x) = key(t) /\ IF natural = "insertion" THEN x < t ELSE x > t
      rank(t) == Cardinality({x \in S : before(x, t)})
  IN  [i \in 1 .. Cardinality(S) |-> CHOOSE t \in S : rank(t) = i - 1]

\* .skip(skip).limit(limit)
Page(seq, skip, limit) ==
  IF skip >= Len(seq) THEN <<>> ELSE SubSeq(seq, skip + 1, Min(skip + limit, Len(seq)))

\* $group by transaction_type with $sum of transaction_amount and of 1.
RECURSIVE SumAmounts(_, _)
SumAmounts(txns, S) ==
  IF S = {} THEN 0
  ELSE LET t == CHOOSE x \in S : \A y \in S : x <= y
       IN  NumAdd(txns[t].transaction_amount, SumAmounts(txns, S \ {t}))

Summary(txns, S) ==
  LET credits == {t \in S : txns[t].transaction_type = "credit"}
      debits  == {t \in S : txns[t].transaction_type = "debit"}
  IN  [totalCredit |-> SumAmounts(txns, credits), totalDebit |-> SumAmounts(txns, debits),
       creditCount |-> Cardinality(credits), debitCount |-> Cardinality(debits)]

\* The response of an error, which carries no data.
ListingError(code, message) ==
  [code |-> code, error |-> message, transactions |-> <<>>,
   pagination |-> buildPaginationResponse(0, 1, 0), summary |-> Summary(<<>>, {}),
   currentBalance |-> 0]

\* The query with every parameter absent.
NoQuery ==
  [page |-> Undefined, limit |-> Undefined, transaction_type |-> NotSent,
   transaction_category |-> NotSent, min_amount |-> Undefined,
   max_amount |-> Undefined, start_date |-> Undefined, end_date |-> Undefined,
   sort_by |-> NotSent, sort_order |-> NotSent]

\* Faulty variant of getTransactionsByAccountH: the type filter is not applied.
getTransactionsByAccountHAnyType(accs, txns, userId, id, query, natural) ==
  LET paging == parsePagination(query, PAGINATION.maxLimitTransactions)
      filter == [buildFilter(userId, id, query) EXCEPT !.transaction_type = {}]
      sortOptions == buildSortOptions(query.sort_by, query.sort_order,
                                      SORT_FIELDS.transaction, "transaction_date")
      found == Matching(txns, filter)
  IN  IF ~ findAccountById(accs, id, userId)
        THEN ListingError(404, "Account not found")
      ELSE IF CastFails(filter.transaction_date) \/ CastFails(filter.transaction_amount)
        THEN ListingError(400, "CastError")
      ELSE
        [code |-> 200, error |-> "none",
         transactions |-> Page(Sorted(txns, found, sortOptions, natural),
                               paging.skip, paging.limit),
         pagination |-> buildPaginationResponse(paging.page, paging.limit,
                                                Cardinality(found)),
         summary |-> Summary(txns, found),
         currentBalance |-> accs[id].current_balance]

\* Faulty variant of getTransactionsByAccountH: the summary is taken over the
\* page.
getTransactionsByAccountHPageSummary(accs, txns, userId, id, query, natural) ==
  LET paging == parsePagination(query, PAGINATION.maxLimitTransactions)
      filter == buildFilter(userId, id, query)
      sortOptions == buildSortOptions(query.sort_by, query.sort_order,
                                      SORT_FIELDS.transaction, "transaction_date")
      found == Matching(txns, filter)
      page == Page(Sorted(txns, found, sortOptions, natural), paging.skip, paging.limit)
  IN  IF ~ findAccountById(accs, id, userId)
        THEN ListingError(404, "Account not found")
      ELSE IF CastFails(filter.transaction_date) \/ CastFails(filter.transaction_amount)
        THEN ListingError(400, "CastError")
      ELSE
        [code |-> 200, error |-> "none",
         transactions |-> page,
         pagination |-> buildPaginationResponse(paging.page, paging.limit,
                                                Cardinality(found)),
         summary |-> Summary(txns, {page[i] : i \in 1 .. Len(page)}),
         currentBalance |-> accs[id].current_balance]

\* The response of getTransactionsByAccount: the account is looked up, the
\* filter and the sort options are built, the page, the count and the summary
\* are queried with the same filter; an error thrown on the way is answered by
\* globalErrorHandler.
getTransactionsByAccountH(accs, txns, userId, id, query, natural) ==
  LET paging == parsePagination(query, PAGINATION.maxLimitTransactions)
      filter == buildFilter(userId, id, query)
      sortOptions == buildSortOptions(query.sort_by, query.sort_order,
                                      SORT_FIELDS.transaction, "transaction_date")
      found == Matching(txns, filter)
  IN  IF ~ findAccountById(accs, id, userId)
        THEN ListingError(404, "Account not found")
      ELSE IF CastFails(filter.transaction_date) \/ CastFails(filter.transaction_amount)
        THEN ListingError(400, "CastError")
      ELSE
        [code |-> 200, error |-> "none",
         transactions |-> Page(Sorted(txns, found, sortOptions, natural),
                               paging.skip, paging.limit),
         pagination |-> buildPaginationResponse(paging.page, paging.limit,
                                                Cardinality(found)),
         summary |-> Summary(txns, found),
         currentBalance |-> accs[id].current_balance]

(***************************************************************************)
(* The server answering listings between the requests that open accounts   *)
(* and create transactions.                                                *)
(***************************************************************************)
\* The values a query parameter is sent with, by parameter: the ones the
\* handler accepts and the ones it does not.
Settings ==
  {<<"page", JsonString(<<"2">>)>>,
   <<"limit", JsonString(<<"1">>)>>,
   <<"transaction_type", "credit">>,
   <<"transaction_category", "Food">>,
   <<"min_amount", JsonString(<<"2">>)>>, <<"max_amount", JsonString(<<"1">>)>>,
   <<"start_date", JsonString(<<"2">>)>>, <<"end_date", JsonString(<<"1">>)>>,
   <<"sort_by", "transaction_amount">>, <<"sort_by", "transaction_type">>,
   <<"sort_order", "asc">>}

BadSettings ==
  {<<"page", JsonString(<<"0">>)>>, <<"page", JsonString(<<"a">>)>>,
   <<"limit", JsonString(<<"-", "1">>)>>, <<"limit", JsonString(<<"a">>)>>,
   <<"limit", JsonString(<<"1", "0", "1">>)>>,
   <<"transaction_type", "Credit">>, <<"transaction_category", "Rent">>,
   <<"min_amount", JsonString(<<"a">>)>>, <<"max_amount", JsonString(<<"a">>)>>,
   <<"start_date", JsonString(<<"a">>)>>, <<"end_date", JsonString(<<"a">>)>>,
   <<"sort_by", "amount">>, <<"sort_order", "up">>}

\* The values explored for one parameter, sent or not.
ParamValues(name, absent) ==
  {absent} \cup {x[2] : x \in {y \in Settings \cup BadSettings : y[1] = name}}

With(query, setting) == [query EXCEPT ![setting[1]] = setting[2]]

\* The queries with at most two parameters sent.
QueriesOf(settings) ==
  {NoQuery} \cup {With(NoQuery, x) : x \in settings}
            \cup {With(With(NoQuery, x), y) : x, y \in settings}

WellFormedQueries == QueriesOf(Settings)

\* The queries the listings between the other requests are sent with: at most
\* one parameter.
SentQueries == {NoQuery} \cup {With(NoQuery, x) : x \in Settings \cup BadSettings}

\* Categories a request that creates a transaction is sent with.
Categories == {"Salary", "Food"}

addTransaction ==
  /\ nextId <= MaxTransactions
  /\ \E u \in Users, a \in AccountIds, ty \in TRANSACTION_TYPES, c \in Categories :
       \E amt \in AmountsOf(u, Amounts) :
         Commit(RunToEnd(accounts, transactions, nextId,
                         [NewRequest("createTransaction", u, a, 0, amt, ty)
                            EXCEPT !.category = c]))

\* Faulty variant of getTransactionsByAccount: the handler stores the credit
\* total of its summary as the balance of the account.
getTransactionsByAccountStoring ==
  \E u \in Users, a \in AccountIds, query \in SentQueries, natural \in NaturalOrders :
    LET r == getTransactionsByAccountH(accounts, transactions, u, a, query, natural)
    IN  /\ resp' = Response("getTransactionsByAccount", u, a, 0, 0, "none",
                            r.code, r.error)
        /\ accounts' = IF r.code = 200
                         THEN [accounts EXCEPT ![a].current_balance = r.summary.totalCredit]
                         ELSE accounts
        /\ UNCHANGED <<transactions, nextId, inflight, received, rateLimitStore, now, admitted>>

getTransactionsByAccount ==
  \E u \in Users, a \in AccountIds, query \in SentQueries, natural \in NaturalOrders :
    LET r == getTransactionsByAccountH(accounts, transactions, u, a, query, natural)
    IN  /\ resp' = Response("getTransactionsByAccount", u, a, 0, 0, "none",
                            r.code, r.error)
        /\ UNCHANGED <<accounts, transactions, nextId, inflight, received, rateLimitStore, now, admitted>>

NextListing ==
  \/ createAccount
  \/ addTransaction
  \/ getTransactionsByAccount

SpecListing == Init /\ [][NextListing]_vars

(***************************************************************************)
(* The server with the account controllers of one account owner: the       *)
(* account's details are edited and the account is soft-deleted between    *)
(* the requests that create transactions; the other user sends requests    *)
(* and owns nothing.                                                       *)
(***************************************************************************)
\* Values of bank_name, account_type and account_number in an update body.
BankNames == {NotSent, "SBI", "Bogus"}
AccountTypes == {NotSent, "Current"}
AccountNumbers == {NotSent, "42"}

updateAccount ==
  \E u \in Users, a \in AccountIds :
    \E bankName \in BankNames, accountType \in AccountTypes,
       accountNumber \in AccountNumbers :
      Commit(updateAccountH(accounts, transactions, nextId, u, a,
                            bankName, accountType, accountNumber))

NextAccount ==
  \/ openAccount
  \/ updateAccount
  \/ deleteAccount
  \/ createTransaction
  \/ getTransactionsByAccount

SpecAccount == Init /\ [][NextAccount]_vars

(***************************************************************************)
(* The rate limiters.  Every limiter the factory creates keeps its records *)
(* in the one module-level Map, under the key `${clientKey}:${req.path}`.  *)
(***************************************************************************)
\* The options of the pre-configured limiters.
generalLimiter ==
  [windowMs |-> 15 * 60 * 1000, maxRequests |-> 100,
   message |-> "Too many requests from this IP, please try again later"]
authLimiter ==
  [windowMs |-> 15 * 60 * 1000, maxRequests |-> 10,
   message |-> "Too many authentication attempts, please try again later"]

\* process.env.API_PREFIX || "": the prefix the routers are mounted under.
apiPrefix == ""

\* req.path as a middleware mounted on the application sees it; a middleware
\* of a route of userRouter sees the path below the router's mount point.
AppPath(path) == apiPrefix \o path

\* `${clientKey}:${req.path}`; clientKey is req.ip while no token was verified.
RouteKey(clientKey, path) == <<clientKey, path>>

\* The middleware createRateLimiter(options) returns, run at time t on a
\* request with routeKey: the Map after it and whether it called next().
createRateLimiter(options, store, routeKey, t) ==
  IF routeKey \notin DOMAIN store \/ t > store[routeKey].resetTime
    THEN [store |-> [k \in DOMAIN store \cup {routeKey} |->
                       IF k = routeKey
                         THEN [count |-> 1, resetTime |-> t + options.windowMs]
                         ELSE store[k]],
          next |-> TRUE]
    ELSE IF store[routeKey].count >= options.maxRequests
           THEN [store |-> store, next |-> FALSE]
           ELSE [store |-> [store EXCEPT ![routeKey].count = @ + 1],
                 next |-> TRUE]

\* The chain of a POST /signup or /signin: generalLimiter (app.use), then the
\* route's authLimiter; admitted says whether the request reaches the handler.
AuthChain(store, clientKey, path, t) ==
  LET general == createRateLimiter(generalLimiter, store,
                                   RouteKey(clientKey, AppPath(path)), t)
      auth == createRateLimiter(authLimiter, general.store,
                                RouteKey(clientKey, path), t)
  IN  IF ~ general.next
        THEN [store |-> general.store, limitedBy |-> {generalLimiter}]
        ELSE [store |-> auth.store,
              limitedBy |-> IF auth.next THEN {} ELSE {authLimiter}]

(***************************************************************************)
(* SpecRateLimit: clients post to the authentication routes while time     *)
(* passes and the cleanup timer runs.                                      *)
(***************************************************************************)
\* The requests explored, and the windows the clock runs through.
MaxAttempts == 7
MaxWindows == 2

Clients == {"ip1", "ip2"}
AuthPaths == {"/signup", "/signin"}
\* What the handler answers when the request reaches it.
AuthAnswers(path) == IF path = "/signin" THEN {200, 401} ELSE {201, 400}

\* Whether the record of key in store' is another one than its record in store.
NewRecord(store, after, key) ==
  key \notin DOMAIN store \/ after[key].resetTime # store[key].resetTime

postAuth ==
  \E c \in Clients, path \in AuthPaths : \E code \in AuthAnswers(path) :
    LET r == AuthChain(rateLimitStore, c, path, now)
        key == RouteKey(c, path)
        before == IF key \in DOMAIN admitted /\ ~ NewRecord(rateLimitStore, r.store, key)
                    THEN admitted[key] ELSE 0
    IN  /\ received < MaxAttempts
        /\ received' = received + 1
        /\ rateLimitStore' = r.store
        /\ resp' = IF r.limitedBy = {}
                     THEN [NoResp EXCEPT !.op = path, !.code = code]
                     ELSE [NoResp EXCEPT !.op = path, !.code = 429,
                                         !.error = (CHOOSE l \in r.limitedBy : TRUE).message]
        /\ admitted' = [k \in DOMAIN admitted \cup {key} |->
                          IF k = key
                            THEN IF r.limitedBy = {} THEN before + 1 ELSE before
                            ELSE admitted[k]]
        /\ UNCHANGED <<accounts, transactions, nextId, inflight, now>>

\* Time passes, half a window at a time.
tick ==
  /\ now < MaxWindows * authLimiter.windowMs
  /\ now' = now + authLimiter.windowMs \div 2
  /\ UNCHANGED <<accounts, transactions, nextId, resp, inflight, received,
                 rateLimitStore, admitted>>

\* The setInterval callback: expired records are deleted.
cleanup ==
  /\ \E k \in DOMAIN rateLimitStore : now > rateLimitStore[k].resetTime
  /\ rateLimitStore' = [k \in {x \in DOMAIN rateLimitStore :
                                 ~ (now > rateLimitStore[x].resetTime)} |->
                          rateLimitStore[k]]
  /\ UNCHANGED <<accounts, transactions, nextId, resp, inflight, received,
                 now, admitted>>

NextRateLimit ==
  \/ postAuth
  \/ tick
  \/ cleanup

SpecRateLimit == Init /\ [][NextRateLimit]_vars

(***************************************************************************)
(* Properties.                                                             *)
(***************************************************************************)
Succeeded == resp.code \in {200, 201}

EntriesOf(a) == {t \in DOMAIN transactions : transactions[t].account_id = a}

LatestEntries(a) ==
  {t \in EntriesOf(a) :
     \A o \in EntriesOf(a) :
       transactions[o].transaction_date <= transactions[t].transaction_date}

RECURSIVE SumOver(_, _)
SumOver(S, type) ==
  IF S = {} THEN 0
  ELSE LET t == CHOOSE x \in S : TRUE
       IN (IF transactions[t].transaction_type = type
             THEN transactions[t].transaction_amount ELSE 0)
          + SumOver(S \ {t}, type)

\* The rule of the two directions, in the arithmetic of the Number type.
Directional(opening, amount, type) ==
  IF type = "credit" THEN NumAdd(opening, amount) ELSE NumSub(opening, amount)

\* C1 as stated, for the active accounts opened with the balance 0 that the
\* claim takes as the initial value: after any sequence of completed create,
\* update and delete requests, the account's current_balance is the
\* closing_balance of its surviving entry with the latest entry date, or 0 when
\* no entry survives.
C1_BalanceIsLatestClosing ==
  \A a \in DOMAIN accounts :
    (accounts[a].is_active /\ accounts[a].created_balance = 0) =>
      IF EntriesOf(a) = {}
        THEN accounts[a].current_balance = 0
        ELSE \E t \in LatestEntries(a) :
               accounts[a].current_balance = transactions[t].closing_balance

\* C2 as stated: every account's current_balance is its balance at creation
\* plus its surviving credits minus its surviving debits.
C2_BalanceIsSumOfHistory ==
  \A a \in DOMAIN accounts :
    accounts[a].current_balance =
      accounts[a].created_balance + SumOver(EntriesOf(a), "credit")
                                  - SumOver(EntriesOf(a), "debit")

\* C3: in every reachable state, whatever the order in which the steps of the
\* apply, amend and remove requests in flight interleave, the stored
\* current_balance of every account is at least 0.
C3_BalanceNeverNegative ==
  \A a \in DOMAIN accounts : accounts[a].current_balance >= 0

\* Two debits were applied from the same loaded balance: the account was opened
\* with 1, holds two debit entries of 1 that both opened at 1, and stands at 0.
C3_Witness ==
  /\ C3_BalanceNeverNegative
  /\ \E a \in DOMAIN accounts :
       /\ accounts[a].created_balance = 1
       /\ accounts[a].current_balance = 0
       /\ \E t1, t2 \in DOMAIN transactions :
            /\ t1 # t2
            /\ \A t \in {t1, t2} :
                 /\ transactions[t].account_id = a
                 /\ transactions[t].transaction_type = "debit"
                 /\ transactions[t].opening_balance = 1
                 /\ transactions[t].closing_balance = 0
       /\ \A r \in Slots : inflight[r] = Idle

C5_CreateWritesOneEntry ==
  [][ (resp'.op = "createTransaction" /\ resp'.code = 201) =>
        LET id == resp'.transaction_id
        IN  /\ id \notin DOMAIN transactions
            /\ DOMAIN transactions' = DOMAIN transactions \cup {id}
            /\ \A o \in DOMAIN transactions : transactions'[o] = transactions[o]
            /\ LET e == transactions'[id]
                   a == e.account_id
               IN  /\ e.opening_balance = accounts[a].current_balance
                   /\ e.closing_balance =
                        Directional(e.opening_balance, e.transaction_amount,
                                    e.transaction_type)
                   /\ accounts'[a].current_balance = e.closing_balance ]_vars

C5_Witness ==
  /\ resp.op = "createTransaction" /\ resp.code = 201
  /\ transactions[resp.transaction_id].transaction_type = "debit"
  /\ transactions[resp.transaction_id].closing_balance > 0

\* C6: a debit create on a found account is rejected with Insufficient balance
\* exactly when the balance is below the amount; a debit of the whole balance
\* is accepted and leaves 0; a rejected create changes neither store.
C6_DebitRejectedIffBelow ==
  \A u \in Users, a \in AccountIds, amt \in Amounts :
    findAccountById(accounts, a, u) =>
      LET r == createTransactionH(accounts, transactions, nextId, u, a, amt, "debit")
          rejected == r.resp.code = 400 /\ r.resp.error = "Insufficient balance"
      IN  /\ rejected <=> accounts[a].current_balance < amt
          /\ rejected => r.accounts = accounts /\ r.transactions = transactions
          /\ ~ rejected => r.resp.code = 201
          /\ accounts[a].current_balance = amt => r.accounts[a].current_balance = 0

C6_Witness ==
  /\ resp.op = "createTransaction" /\ resp.code = 400
  /\ \E a \in DOMAIN accounts : accounts[a].is_active /\ accounts[a].current_balance = 1

\* C7 as stated: an update of an own entry whose account exists succeeds
\* whenever the balance with the old effect reversed and the new one applied
\* is >= 0.
C7_UpdateAcceptedWhenFinalNonNegative ==
  \A u \in Users, id \in DOMAIN transactions, amt \in Amounts, ty \in TRANSACTION_TYPES :
    (transactions[id].user_id = u
       /\ findAccountAnyState(accounts, transactions[id].account_id, u)) =>
      LET old == transactions[id]
          bal == accounts[old.account_id].current_balance
          undone == IF old.transaction_type = "credit"
                      THEN bal - old.transaction_amount
                      ELSE bal + old.transaction_amount
          final == IF ty = "credit" THEN undone + amt ELSE undone - amt
      IN  final >= 0 =>
            updateTransactionH(accounts, transactions, nextId, u, id, amt, ty).resp.code = 200

\* C8: a successful update stores as opening_balance the balance with the old
\* entry reversed, as closing_balance that value with the new amount applied
\* in the new direction, and sets the account's current_balance to it.
C8_UpdateRevertsThenApplies ==
  [][ (resp'.op = "updateTransaction" /\ resp'.code = 200) =>
        LET id == resp'.transaction_id
            old == transactions[id]
            a == old.account_id
            e == transactions'[id]
            mid == Directional(accounts[a].current_balance, old.transaction_amount,
                               IF old.transaction_type = "credit" THEN "debit" ELSE "credit")
        IN  /\ e.opening_balance = mid
            /\ e.closing_balance =
                 Directional(mid, e.transaction_amount, e.transaction_type)
            /\ accounts'[a].current_balance = e.closing_balance ]_vars

\* The example of C8 in the model's amounts: a debit of 2 changed to a debit
\* of 1 on an account that opened with 1 and was credited 2.
C8_Witness ==
  /\ resp.op = "updateTransaction" /\ resp.code = 200
  /\ LET e == transactions[resp.transaction_id]
     IN  /\ e.transaction_type = "debit"
         /\ e.transaction_amount = 1
         /\ e.opening_balance = 3
         /\ accounts[e.account_id].current_balance = 2

\* C9 as stated: deleting an existing entry of the caller always succeeds.
C9_DeleteAlwaysSucceeds ==
  \A u \in Users, id \in DOMAIN transactions :
    transactions[id].user_id = u =>
      deleteTransactionH(accounts, transactions, nextId, u, id).resp.code = 200

\* C9 amended: deleting an existing entry of the caller fails, with Insufficient
\* balance and no change, exactly when its account is active and the entry is a
\* credit larger than the current balance; otherwise it succeeds, deletes the
\* entry and, when the account is active, sets its balance to the reversed
\* value; a missing or foreign entry gives not-found and no change.
C9_DeleteSucceedsUnlessSpent ==
  \A u \in Users, id \in 1..MaxTransactions :
    LET r == deleteTransactionH(accounts, transactions, nextId, u, id)
        unchanged == r.accounts = accounts /\ r.transactions = transactions
    IN  IF ~ (id \in DOMAIN transactions /\ transactions[id].user_id = u)
          THEN r.resp.code = 404 /\ unchanged
          ELSE
            LET e == transactions[id]
                a == e.account_id
                active == findAccountById(accounts, a, u)
                spent == /\ active
                         /\ e.transaction_type = "credit"
                         /\ accounts[a].current_balance < e.transaction_amount
            IN  IF spent
                  THEN r.resp.code = 400 /\ unchanged
                  ELSE /\ r.resp.code = 200
                       /\ DOMAIN r.transactions = DOMAIN transactions \ {id}
                       /\ \A o \in DOMAIN r.transactions :
                            r.transactions[o] = transactions[o]
                       /\ IF active
                            THEN r.accounts[a].current_balance =
                                   Directional(accounts[a].current_balance,
                                               e.transaction_amount,
                                               IF e.transaction_type = "credit"
                                                 THEN "debit" ELSE "credit")
                            ELSE r.accounts = accounts

C9_Witness ==
  /\ resp.op = "deleteTransaction" /\ resp.code = 400
  /\ resp.error = "Insufficient balance"

\* C10 as stated: a create followed at once by the delete of the created entry
\* returns the account's current_balance to its value before the create and
\* leaves the entries as they were.
C10_CreateThenDeleteRestores ==
  \A u \in Users, a \in AccountIds, amt \in LargeAmounts, ty \in TRANSACTION_TYPES :
    nextId <= MaxTransactions =>
      LET r1 == createTransactionH(accounts, transactions, nextId, u, a, amt, ty)
          r2 == deleteTransactionH(r1.accounts, r1.transactions, r1.nextId, u, nextId)
      IN  r1.resp.code = 201 =>
            /\ r2.accounts[a].current_balance = accounts[a].current_balance
            /\ r2.transactions = transactions

\* C11 as stated: an update of an own entry that carries the amount and the
\* type the entry already has leaves the current_balance of its account as it
\* was, in every reachable state.
C11_SameUpdateKeepsBalance ==
  \A u \in Users, id \in DOMAIN transactions :
    (transactions[id].user_id = u
       /\ findAccountAnyState(accounts, transactions[id].account_id, u)) =>
      LET e == transactions[id]
          r == updateTransactionH(accounts, transactions, nextId, u, id,
                                  e.transaction_amount, e.transaction_type)
      IN  r.accounts[e.account_id].current_balance
            = accounts[e.account_id].current_balance

\* Nothing is being handled.
Quiet == \A r \in Slots : inflight[r] = Idle

\* C12 as stated, for the first transaction request a server receives (it can
\* write only by creating an entry): once the request has ended, with a
\* response or with a failure, either both of its writes are in the stores or
\* neither is; the account stands at the closing_balance of its entry, or
\* has no entry and stands at the balance it was opened with.
C12_WritesAreAUnit ==
  (Quiet /\ received = 1) =>
    \A a \in DOMAIN accounts :
      IF EntriesOf(a) = {}
        THEN accounts[a].current_balance = accounts[a].created_balance
        ELSE \E t \in EntriesOf(a) :
               accounts[a].current_balance = transactions[t].closing_balance

\* C13 as stated: when the only two transaction requests a server has received
\* both created an entry on the same account, in whatever order their steps
\* interleaved, the opening_balance of one entry is the closing_balance of the
\* other and the account's current_balance is the closing_balance of the later
\* entry.
C13_ConcurrentCreatesChain ==
  (Quiet /\ received = 2) =>
    \A a \in DOMAIN accounts : \A t1, t2 \in EntriesOf(a) :
      transactions[t1].transaction_date < transactions[t2].transaction_date =>
        /\ \/ transactions[t2].opening_balance = transactions[t1].closing_balance
           \/ transactions[t1].opening_balance = transactions[t2].closing_balance
        /\ accounts[a].current_balance = transactions[t2].closing_balance

\* The scenario of C14 in the model's amounts (one unit is 50): a credit of 2
\* and a debit of 1 sent together to account a by its owner.
CreditAndDebit(a, sched) ==
  Interleave(TwoRequests(accounts, transactions, nextId,
               NewRequest("createTransaction", accounts[a].user_id, a, 0, 2, "credit"),
               NewRequest("createTransaction", accounts[a].user_id, a, 0, 1, "debit")),
             sched)

\* C14 as stated: a credit of 100 and a debit of 50 sent together to an active
\* account whose balance is 0 end with current_balance 50 under every order of
\* their steps, and no step stores a negative balance.
C14_CreditAndDebitEndAtFifty ==
  \A a \in DOMAIN accounts :
    (accounts[a].is_active /\ accounts[a].current_balance = 0) =>
      \A sched \in Schedules :
        LET end == CreditAndDebit(a, sched)
        IN  end.accounts[a].current_balance = 1 /\ end.nonneg

\* C14 amended: the credit is accepted; the debit is accepted, opens at 100 and
\* leaves current_balance 50 when it reads the account after the credit's
\* balance write, and is otherwise rejected with Insufficient balance, writes
\* nothing and leaves current_balance 100; no step stores a negative balance.
C14_CreditAndDebitEndAtFiftyOrHundred ==
  \A a \in DOMAIN accounts :
    (accounts[a].is_active /\ accounts[a].current_balance = 0) =>
      \A sched \in Schedules :
        LET end == CreditAndDebit(a, sched)
            new == DOMAIN end.transactions \ DOMAIN transactions
        IN  /\ end.nonneg
            /\ end.ra.code = 201
            /\ IF end.rb.code = 201
                 THEN /\ end.accounts[a].current_balance = 1
                      /\ Cardinality(new) = 2
                      /\ end.transactions[end.rb.transaction_id].opening_balance = 2
                 ELSE /\ end.rb.code = 400
                      /\ end.rb.error = "Insufficient balance"
                      /\ end.accounts[a].current_balance = 2
                      /\ Cardinality(new) = 1

\* The scenario has run both ways: the account opened with 0 holds the credit
\* of 2 and the debit of 1 that opened at 2, and stands at 1.
C14_Witness ==
  /\ Quiet /\ received = 2
  /\ \E a \in DOMAIN accounts : \E c, d \in EntriesOf(a) :
       /\ accounts[a].created_balance = 0
       /\ accounts[a].current_balance = 1
       /\ transactions[c].transaction_type = "credit"
       /\ transactions[c].transaction_amount = 2
       /\ transactions[c].opening_balance = 0
       /\ transactions[d].transaction_type = "debit"
       /\ transactions[d].transaction_amount = 1
       /\ transactions[d].opening_balance = 2

\* A response that rejects the request body, the stores left as they were.
RejectedUnchanged(r) ==
  /\ r.resp.code = 400
  /\ r.accounts = accounts
  /\ r.transactions = transactions

\* The active accounts and the entries of the user whose bodies are explored.
OwnAccounts == {a \in AccountIds : findAccountById(accounts, a, RequestUser)}
OwnEntries == {t \in DOMAIN transactions : transactions[t].user_id = RequestUser}

\* C15 as stated, for requests on an own active account or an own entry: a
\* create or an update whose category is not one of the
\* categories of its type (a credit with Food, a debit with Salary) is
\* rejected and leaves every entry and every balance as it was.
C15_CategoryOfOtherTypeRejected ==
  \A rawAmount \in RawAmounts, type \in TRANSACTION_TYPES :
    \A category \in RawCategories \ TRANSACTION_CATEGORIES[type] :
      /\ \A a \in OwnAccounts :
           RejectedUnchanged(createTransactionReq(accounts, transactions, nextId,
                               RequestUser, a, rawAmount, type, category))
      /\ \A id \in OwnEntries :
           RejectedUnchanged(updateTransactionReq(accounts, transactions, nextId,
                               RequestUser, id, rawAmount, type, category))

\* A string that is a numeral: an optional sign, then digits and nothing else.
IsNumeral(s) ==
  LET digits == IF s # <<>> /\ Head(s) = "-" THEN Tail(s) ELSE s
  IN  digits # <<>> /\ \A i \in 1 .. Len(digits) : IsDigit(digits[i])

\* The amounts C16 lets pass: a number or a numeral, greater than 0.
NumericAndPositive(x) ==
  \/ x.kind = "number" /\ x.num > 0
  \/ x.kind = "string" /\ IsNumeral(x.str) /\ Head(x.str) # "-"
       /\ \E i \in 1 .. Len(x.str) : x.str[i] # "0"

\* C16 as stated, for requests on an own active account or an own entry: a
\* create or an update whose amount is missing, not numeric
\* or not greater than 0, or whose type is not exactly credit or debit, is
\* rejected with a validation error and no store is written.
C16_InvalidBodyRejected ==
  \A rawAmount \in RawAmounts, rawType \in RawTypes, rawCategory \in RawCategories :
    (~ NumericAndPositive(rawAmount) \/ rawType \notin {"credit", "debit"}) =>
      /\ \A a \in OwnAccounts :
           RejectedUnchanged(createTransactionReq(accounts, transactions, nextId,
                               RequestUser, a, rawAmount, rawType, rawCategory))
      /\ \A id \in OwnEntries :
           RejectedUnchanged(updateTransactionReq(accounts, transactions, nextId,
                               RequestUser, id, rawAmount, rawType, rawCategory))

\* C17: a create on an account that does not exist, is soft-deleted or belongs
\* to another user answers not-found, creates no entry and changes no balance.
C17_CreateOnUnknownAccountNotFound ==
  \A u \in Users, a \in AccountIds, amt \in Amounts, ty \in TRANSACTION_TYPES :
    (\/ a \notin DOMAIN accounts
     \/ accounts[a].user_id # u
     \/ ~ accounts[a].is_active) =>
      LET r == createTransactionH(accounts, transactions, nextId, u, a, amt, ty)
      IN  /\ r.resp.code = 404
          /\ r.transactions = transactions
          /\ r.accounts = accounts

\* A create was answered not-found while the stores hold a soft-deleted account
\* and an active account of each user.
C17_Witness ==
  /\ resp.op = "createTransaction" /\ resp.code = 404
  /\ \E a \in DOMAIN accounts : ~ accounts[a].is_active
  /\ \E a \in DOMAIN accounts : accounts[a].is_active

\* C18 as stated: an update answers not-found and changes neither the entry nor
\* any balance whenever the entry does not exist, belongs to another user, or
\* its account is missing or soft-deleted.
C18_UpdateOnUnknownNotFound ==
  \A u \in Users, id \in 1 .. MaxTransactions, amt \in Amounts, ty \in TRANSACTION_TYPES :
    (\/ id \notin DOMAIN transactions
     \/ transactions[id].user_id # u
     \/ transactions[id].account_id \notin DOMAIN accounts
     \/ ~ accounts[transactions[id].account_id].is_active) =>
      LET r == updateTransactionH(accounts, transactions, nextId, u, id, amt, ty)
      IN  /\ r.resp.code = 404
          /\ r.transactions = transactions
          /\ r.accounts = accounts

\* C19: a delete of an own entry whose account is missing or soft-deleted
\* deletes the entry, leaves every account as it was and answers success with
\* no new balance.
C19_DeleteWithoutAccount ==
  \A u \in Users, id \in DOMAIN transactions :
    (/\ transactions[id].user_id = u
     /\ \/ transactions[id].account_id \notin DOMAIN accounts
        \/ ~ accounts[transactions[id].account_id].is_active) =>
      LET r == deleteTransactionH(accounts, transactions, nextId, u, id)
      IN  /\ r.resp.code = 200
          /\ r.resp.new_balance = {}
          /\ DOMAIN r.transactions = DOMAIN transactions \ {id}
          /\ \A o \in DOMAIN r.transactions : r.transactions[o] = transactions[o]
          /\ r.accounts = accounts

\* An entry of a soft-deleted account was deleted: the response carries no new
\* balance and the account still holds what the entry had credited.
C19_Witness ==
  /\ resp.op = "deleteTransaction" /\ resp.code = 200 /\ resp.new_balance = {}
  /\ \E a \in DOMAIN accounts :
       /\ ~ accounts[a].is_active
       /\ EntriesOf(a) = {}
       /\ accounts[a].current_balance > accounts[a].created_balance

\* What a request on account a may not touch: the other accounts and their
\* entries, and it adds no entry to them.
OthersUntouched(r, a) ==
  /\ DOMAIN r.accounts = DOMAIN accounts
  /\ \A b \in DOMAIN accounts \ {a} : r.accounts[b] = accounts[b]
  /\ \A t \in DOMAIN transactions :
       transactions[t].account_id # a =>
         t \in DOMAIN r.transactions /\ r.transactions[t] = transactions[t]
  /\ \A t \in DOMAIN r.transactions \ DOMAIN transactions :
       r.transactions[t].account_id = a

\* The account a request on entry id acts on.
AccountOfEntry(u, id) ==
  IF id \in DOMAIN transactions /\ transactions[id].user_id = u
    THEN transactions[id].account_id
    ELSE "none"

\* C20: a create, an update or a delete acting on one account leaves the
\* current_balance of every other account and every entry of every other
\* account as they were, whoever owns them.
C20_OtherAccountsUntouched ==
  \A u \in Users :
    /\ \A a \in AccountIds, amt \in Amounts, ty \in TRANSACTION_TYPES :
         OthersUntouched(
           createTransactionH(accounts, transactions, nextId, u, a, amt, ty), a)
    /\ \A id \in 1 .. MaxTransactions :
         /\ \A amt \in Amounts, ty \in TRANSACTION_TYPES :
              OthersUntouched(
                updateTransactionH(accounts, transactions, nextId, u, id, amt, ty),
                AccountOfEntry(u, id))
         /\ OthersUntouched(
              deleteTransactionH(accounts, transactions, nextId, u, id),
              AccountOfEntry(u, id))

\* An entry was updated while the account of each user holds an entry.
C20_Witness ==
  /\ resp.op = "updateTransaction" /\ resp.code = 200
  /\ \A a \in AccountIds : a \in DOMAIN accounts /\ EntriesOf(a) # {}

\* The handlers that write current_balance.
BalanceWriters == {"createTransaction", "updateTransaction", "deleteTransaction"}

NotAfter(x, y, sortOptions) ==
  LET kx == SortKey(transactions, x, sortOptions.field)
      ky == SortKey(transactions, y, sortOptions.field)
  IN  IF sortOptions.direction = 1 THEN kx <= ky ELSE kx >= ky

\* The entries of account a and user u that meet every filter the query
\* carries, read off the parameters one by one.
Wanted(u, a, query) ==
  {t \in DOMAIN transactions :
     /\ transactions[t].account_id = a
     /\ transactions[t].user_id = u
     /\ query.transaction_type # NotSent =>
          transactions[t].transaction_type = query.transaction_type
     /\ query.transaction_category # NotSent =>
          transactions[t].transaction_category = query.transaction_category
     /\ query.min_amount # Undefined =>
          transactions[t].transaction_amount >= parseFloat(query.min_amount).value
     /\ query.max_amount # Undefined =>
          transactions[t].transaction_amount <= parseFloat(query.max_amount).value
     /\ query.start_date # Undefined =>
          transactions[t].transaction_date >= newDate(query.start_date).value
     /\ query.end_date # Undefined =>
          transactions[t].transaction_date <= newDate(query.end_date).value}

\* The order a query asks for: its sort field and order, entry date descending
\* when it names none.
WantedOrder(query) ==
  [field |-> IF query.sort_by = NotSent THEN "transaction_date" ELSE query.sort_by,
   direction |-> IF query.sort_order = "asc" THEN 1 ELSE 0 - 1]

\* C22: a listing returns entries of the requested account and caller that
\* meet every filter of the query, in the requested order (entry date
\* descending by default), and they are the ones at positions
\* (page-1)*limit+1 to page*limit of the matching entries in that order.
C22_ListingIsTheFilteredSortedPage ==
  \A u \in Users, a \in AccountIds, query \in WellFormedQueries,
     natural \in NaturalOrders :
    LET r == getTransactionsByAccountH(accounts, transactions, u, a, query, natural)
        wanted == Wanted(u, a, query)
        order == WantedOrder(query)
        page == IF query.page = Undefined THEN 1 ELSE parseInt(query.page).value
        limit == IF query.limit = Undefined THEN 10 ELSE parseInt(query.limit).value
        first == (page - 1) * limit + 1
        last == Min(page * limit, Cardinality(wanted))
        got == r.transactions
    IN  r.code = 200 =>
          /\ Len(got) = Max(0, last - first + 1)
          /\ \A i \in 1 .. Len(got) :
               /\ got[i] \in wanted
               /\ \A j \in 1 .. Len(got) : i < j =>
                    got[i] # got[j] /\ NotAfter(got[i], got[j], order)
               \* got[i] stands at position first + i - 1 of the order
               /\ Cardinality({x \in wanted : ~ NotAfter(got[i], x, order)})
                    <= first + i - 2
               /\ Cardinality({x \in wanted : NotAfter(x, got[i], order)})
                    >= first + i - 1

\* A listing was answered for an account that holds a credit and a debit,
\* while the other user has an account too: with the type filter it returns
\* one entry, and its second page of one entry is not empty.
C22_Witness ==
  /\ resp.op = "getTransactionsByAccount" /\ resp.code = 200
  /\ \E a \in DOMAIN accounts, b \in DOMAIN accounts :
       /\ a # b
       /\ \E natural \in NaturalOrders :
            LET u == accounts[a].user_id
                credits == getTransactionsByAccountH(accounts, transactions, u, a,
                             With(NoQuery, <<"transaction_type", "credit">>), natural)
                second == getTransactionsByAccountH(accounts, transactions, u, a,
                             With(With(NoQuery, <<"page", JsonString(<<"2">>)>>),
                                  <<"limit", JsonString(<<"1">>)>>), natural)
            IN  /\ Len(credits.transactions) = 1
                /\ Len(second.transactions) = 1
                /\ Cardinality(EntriesOf(a)) >= 2

\* The number a page or limit parameter stands for when it is a numeral (a
\* string of digits) within lo .. hi, and otherwise the default.
NumberOr(x, lo, hi, default) ==
  IF x # Undefined /\ ~ newDate(x).nan /\ newDate(x).value >= lo /\ newDate(x).value <= hi
    THEN newDate(x).value ELSE default

\* C23: for every page and limit parameter, a listing uses a page of at least
\* 1 (1 by default) and a limit from 1 to 100 (10 by default), and answers
\* totalPages = ceil(totalCount / limit), hasNextPage = (page < totalPages)
\* and hasPrevPage = (page > 1), where totalCount counts the entries that
\* match the filter whatever the page.
C23_PagingMetadata ==
  \A u \in Users, a \in AccountIds :
    \A page \in ParamValues("page", Undefined),
       limit \in ParamValues("limit", Undefined),
       type \in ParamValues("transaction_type", NotSent) \cap ({NotSent} \cup TRANSACTION_TYPES) :
      LET filters == [NoQuery EXCEPT !.transaction_type = type]
          query == [filters EXCEPT !.page = page, !.limit = limit]
          r == getTransactionsByAccountH(accounts, transactions, u, a, query, "insertion")
          p == r.pagination
          totalCount == Cardinality(Wanted(u, a, filters))
      IN  r.code = 200 =>
            /\ p.currentPage >= 1
            /\ p.currentPage = NumberOr(page, 1, p.currentPage, 1)
            /\ p.perPage \in 1 .. 100
            /\ p.perPage = NumberOr(limit, 1, 100, p.perPage)
            /\ limit = Undefined => p.perPage = 10
            /\ p.totalCount = totalCount
            /\ p.totalPages * p.perPage >= totalCount
            /\ (p.totalPages - 1) * p.perPage < totalCount
            /\ p.hasNextPage = (p.currentPage < p.totalPages)
            /\ p.hasPrevPage = (p.currentPage > 1)
            /\ Len(r.transactions) <= p.perPage

\* A listing was answered for an account with two entries: with limit 1 its
\* first page has a next page and its second a previous one, and a limit of
\* 101 is cut to 100.
C23_Witness ==
  /\ resp.op = "getTransactionsByAccount" /\ resp.code = 200
  /\ \E a \in DOMAIN accounts :
       LET u == accounts[a].user_id
           one == With(NoQuery, <<"limit", JsonString(<<"1">>)>>)
           first == getTransactionsByAccountH(accounts, transactions, u, a, one,
                                              "insertion")
           second == getTransactionsByAccountH(accounts, transactions, u, a,
                       With(one, <<"page", JsonString(<<"2">>)>>), "insertion")
           wide == getTransactionsByAccountH(accounts, transactions, u, a,
                     With(NoQuery, <<"limit", JsonString(<<"1", "0", "1">>)>>),
                     "insertion")
       IN  /\ first.code = 200
           /\ first.pagination.totalPages = 2 /\ first.pagination.hasNextPage
           /\ second.pagination.hasPrevPage /\ ~ second.pagination.hasNextPage
           /\ wide.pagination.perPage = 100

\* C24: the summary of a listing gives the sum of the amounts and the number
\* of all credit, and of all debit, entries of the account that match the
\* filter, whatever the page and the limit, so that creditCount + debitCount
\* is totalCount.
C24_SummaryCoversTheFilter ==
  \A u \in Users, a \in AccountIds, query \in WellFormedQueries :
    LET r == getTransactionsByAccountH(accounts, transactions, u, a, query, "insertion")
        wanted == Wanted(u, a, query)
    IN  r.code = 200 =>
          /\ r.summary.totalCredit = SumOver(wanted, "credit")
          /\ r.summary.totalDebit = SumOver(wanted, "debit")
          /\ r.summary.creditCount =
               Cardinality({t \in wanted : transactions[t].transaction_type = "credit"})
          /\ r.summary.debitCount =
               Cardinality({t \in wanted : transactions[t].transaction_type = "debit"})
          /\ r.summary.creditCount + r.summary.debitCount = r.pagination.totalCount

\* A listing was answered for an account that holds a credit and a debit: a
\* page of one entry comes with the summary of both.
C24_Witness ==
  /\ resp.op = "getTransactionsByAccount" /\ resp.code = 200
  /\ \E a \in DOMAIN accounts :
       LET r == getTransactionsByAccountH(accounts, transactions, accounts[a].user_id, a,
                  With(NoQuery, <<"limit", JsonString(<<"1">>)>>), "insertion")
       IN  /\ Len(r.transactions) = 1
           /\ r.summary.creditCount = 1 /\ r.summary.debitCount = 1
           /\ r.summary.totalCredit = 2 /\ r.summary.totalDebit = 1

\* The parameters whose invalid values the claim names: direction, category,
\* amount bounds, dates, sort field and sort order.
FilterAndSortParameters ==
  {"transaction_type", "transaction_category", "min_amount", "max_amount",
   "start_date", "end_date", "sort_by", "sort_order"}

\* C25 as stated: a listing whose query carries an unknown direction, an
\* unknown category, a non-numeric amount bound, an unparsable date or an
\* unknown sort field or order gives the response that the same query gives
\* without that parameter.
C25_InvalidParameterIsIgnored ==
  \A u \in Users, a \in AccountIds, natural \in NaturalOrders :
    \A bad \in BadSettings, query \in SentQueries :
      (bad[1] \in FilterAndSortParameters /\ query[bad[1]] = NoQuery[bad[1]]) =>
        getTransactionsByAccountH(accounts, transactions, u, a, With(query, bad), natural)
          = getTransactionsByAccountH(accounts, transactions, u, a, query, natural)

\* The queries a listing is repeated with: none, and a sort with ties.
RepeatedQueries == {NoQuery, With(NoQuery, <<"sort_by", "transaction_type">>)}

C29_SoftDeleteIsPermanent ==
  /\ [](\A a \in DOMAIN accounts :
          ~ accounts[a].is_active =>
            \A u \in Users :
              /\ deleteAccountH(accounts, transactions, nextId, u, a).resp.code = 404
              /\ \A amt \in Amounts, ty \in TRANSACTION_TYPES :
                   createTransactionH(accounts, transactions, nextId, u, a, amt, ty)
                     .resp.code = 404
              /\ \A query \in SentQueries, natural \in NaturalOrders :
                   getTransactionsByAccountH(accounts, transactions, u, a, query, natural)
                     .code = 404
              \* an update or a delete of one of its entries leaves it soft-deleted
              /\ \A id \in DOMAIN transactions :
                   /\ ~ deleteTransactionH(accounts, transactions, nextId, u, id)
                         .accounts[a].is_active
                   /\ \A amt \in Amounts, ty \in TRANSACTION_TYPES :
                        ~ updateTransactionH(accounts, transactions, nextId, u, id, amt, ty)
                            .accounts[a].is_active)
  /\ [][\A a \in DOMAIN accounts :
          ~ accounts[a].is_active =>
            a \in DOMAIN accounts' /\ ~ accounts'[a].is_active]_vars

\* A soft-deleted account that holds an entry was asked for its listing and
\* the answer was not-found.
C29_Witness ==
  /\ resp.op = "getTransactionsByAccount" /\ resp.code = 404
  /\ \E a \in DOMAIN accounts : ~ accounts[a].is_active /\ EntriesOf(a) # {}

\* C27: a create writes its entry before it writes the balance: its steps up
\* to the entry write leave every account as it was, the entry is stored when
\* the balance write is awaited, and a create interrupted between the two
\* writes leaves the entry stored and the balance equal to the entry's
\* opening_balance (when no other request has written the account or the
\* entry since the create read the balance).
C27_EntryIsWrittenBeforeBalance ==
  [][\A r \in Slots :
       LET q == inflight[r]
           after == inflight'[r]
       IN  /\ (q = Idle /\ after.op = "createTransaction") =>
                accounts' = accounts /\ transactions' = transactions
           /\ (q.op = "createTransaction" /\ q.pc = "create" /\ after # q) =>
                /\ accounts' = accounts
                /\ after.pc = "save" =>
                     /\ after.transaction_id \notin DOMAIN transactions
                     /\ after.transaction_id \in DOMAIN transactions'
           /\ (q.op = "createTransaction" /\ q.pc = "save" /\ after # q) =>
                /\ transactions' = transactions
                /\ resp'.code = 500 => accounts' = accounts
                /\ (/\ resp'.code = 500
                    /\ q.transaction_id \in DOMAIN transactions
                    /\ transactions[q.transaction_id].opening_balance = q.opening
                    /\ transactions[q.transaction_id].closing_balance = q.value
                    /\ accounts[q.account_id].current_balance = q.loaded) =>
                     accounts'[q.account_id].current_balance
                       = transactions'[q.transaction_id].opening_balance]_vars

\* A create was interrupted between its two writes: its entry is stored, no
\* request is in flight, and the balance of the account is the entry's
\* opening_balance and not its closing_balance.
C27_Witness ==
  /\ resp.op = "createTransaction" /\ resp.code = 500
  /\ \A r \in Slots : inflight[r] = Idle
  /\ nextId - 1 \in DOMAIN transactions
  /\ LET entry == transactions[nextId - 1]
     IN  /\ accounts[entry.account_id].current_balance = entry.opening_balance
         /\ entry.closing_balance # entry.opening_balance

\* Entry t has already been reversed when request r is about to write its own
\* reversal: the entry is gone, or another remove of t has saved its balance.
AlreadyReversed(t, r) ==
  \/ t \notin DOMAIN transactions
  \/ \E o \in Slots \ {r} :
       /\ inflight[o].op = "deleteTransaction"
       /\ inflight[o].transaction_id = t
       /\ inflight[o].pc = "delete"
       /\ inflight[o].found

\* C28: the balance effect of one entry is reversed at most once: when two
\* removes of the same entry run concurrently, the balance write of the second
\* one does not move current_balance again.
C28_EntryReversedAtMostOnce ==
  [][\A r \in Slots :
       LET q == inflight[r]
       IN  (/\ q.op = "deleteTransaction"
            /\ q.pc = "save"
            /\ inflight'[r] # q
            /\ resp'.code # 500
            /\ AlreadyReversed(q.transaction_id, r)) =>
             accounts' = accounts]_vars

\* C30: the auth limiter permits 10 attempts per window: a client's request to
\* /signin or /signup is answered 429 by authLimiter only when 10 of that
\* client's requests to that path were admitted in the current window, also
\* with generalLimiter running first; once the record's reset time has passed
\* the request is admitted again.
C30_AuthLimiterPermitsTen ==
  \A c \in Clients, path \in AuthPaths :
    LET r == AuthChain(rateLimitStore, c, path, now)
        key == RouteKey(c, path)
    IN  /\ r.limitedBy = {authLimiter} =>
             /\ key \in DOMAIN admitted
             /\ admitted[key] >= authLimiter.maxRequests
        /\ (key \in DOMAIN rateLimitStore /\ now > rateLimitStore[key].resetTime) =>
             r.limitedBy = {}

====
